---- MODULE Spec2Model ----
(***************************************************************************)
(* Model of orion.core.io.database.ephemeraldb: the EphemeralDB facade,    *)
(* one EphemeralCollection, its EphemeralDocument objects and the          *)
(* _flatten/_unflatten codec.                                              *)
(*                                                                         *)
(* Representation.                                                         *)
(*   - A Python str is a sequence of one-character strings, so that        *)
(*     split("."), startswith and replace are computed, not assumed:       *)
(*     "a.b" is <<"a", ".", "b">>.                                         *)
(*   - A Python dict is the sequence of its <<key, value>> items in        *)
(*     insertion order (the order popitem, items() and update observe).    *)
(*   - A Python value is tagged: <<"int", n>>, <<"dict", items>>,          *)
(*     <<"list", seq>>; None is <<"none", 0>>.                             *)
(*   - A call returns [err |-> "none", val |-> v] or raises:               *)
(*     [err |-> <exception name>, val |-> <<>>].                           *)
(***************************************************************************)
EXTENDS Integers, Sequences, FiniteSets, TLC

(***************************************************************************)
(* Bounds of the model.                                                    *)
(***************************************************************************)
\* number of documents a behaviour may append over its whole length
MaxInserts == 3
\* largest scalar drawn for the fields a, b and for an explicit _id
MaxVal == 2
\* longest batch handed to insert_many
MaxBatch == 2
\* number of documents a behaviour of SpecNested or SpecSelect may append
MaxNested == 2
\* depth of the nested records handed to _flatten
MaxDepth == 3

(***************************************************************************)
(* Python values.                                                          *)
(***************************************************************************)
IntV(n) == <<"int", n>>
DictV(items) == <<"dict", items>>
ListV(elems) == <<"list", elems>>
NoneV == <<"none", 0>>
IsInt(v) == v[1] = "int"
IsDict(v) == v[1] = "dict"
IsList(v) == v[1] = "list"
Ok(v) == [err |-> "none", val |-> v]
Raise(e) == [err |-> e, val |-> <<>>]

(***************************************************************************)
(* Python str operations on character sequences.                           *)
(***************************************************************************)
ID == <<"_", "i", "d">>
SET == <<"$", "s", "e", "t">>

startswith(s, p) == Len(p) <= Len(s) /\ SubSeq(s, 1, Len(p)) = p

RECURSIVE split(_)
split(s) ==
    IF \A i \in DOMAIN s : s[i] # "."
    THEN <<s>>
    ELSE LET i == CHOOSE j \in DOMAIN s :
                      s[j] = "." /\ \A k \in 1..(j - 1) : s[k] # "."
         IN <<SubSeq(s, 1, i - 1)>> \o split(SubSeq(s, i + 1, Len(s)))

RECURSIVE join(_)
join(parts) ==
    IF parts = <<>> THEN <<>>
    ELSE IF Len(parts) = 1 THEN parts[1]
    ELSE parts[1] \o <<".">> \o join(Tail(parts))

\* s.replace(old, ''): every non-overlapping occurrence, left to right
RECURSIVE replace(_, _)
replace(s, old) ==
    IF old = <<>> \/ s = <<>> THEN s
    ELSE IF startswith(s, old)
         THEN replace(SubSeq(s, Len(old) + 1, Len(s)), old)
         ELSE <<s[1]>> \o replace(Tail(s), old)

(***************************************************************************)
(* Python dict operations on item sequences.                               *)
(***************************************************************************)
Keys(d) == {d[i][1] : i \in DOMAIN d}
Has(d, k) == \E i \in DOMAIN d : d[i][1] = k
Get(d, k) == d[CHOOSE i \in DOMAIN d : d[i][1] = k][2]
\* d[k] = v: an existing key keeps its place, a new key goes last
Put(d, k, v) ==
    IF Has(d, k)
    THEN [i \in DOMAIN d |-> IF d[i][1] = k THEN <<k, v>> ELSE d[i]]
    ELSE Append(d, <<k, v>>)
Pop(d, k) == SelectSeq(d, LAMBDA p : p[1] # k)
\* d.update(e)
RECURSIVE Update(_, _)
Update(d, e) ==
    IF e = <<>> THEN d ELSE Update(Put(d, e[1][1], e[1][2]), Tail(e))

(***************************************************************************)
(* _flatten and _unflatten.                                                *)
(***************************************************************************)
\* the loop of __flatten that prefixes every key of the flat sub-dictionary
RECURSIVE PrefixKeys(_, _, _)
PrefixKeys(flat_sub_dictionary, keys, key) ==
    IF keys = <<>> THEN flat_sub_dictionary
    ELSE LET flat_sub_key == Head(keys)
             flat_key == key \o <<".">> \o flat_sub_key
             value == Get(flat_sub_dictionary, flat_sub_key)
         IN PrefixKeys(Put(Pop(flat_sub_dictionary, flat_sub_key), flat_key, value),
                       Tail(keys), key)

KeyList(d) == [i \in DOMAIN d |-> d[i][1]]

\* the argument of _flatten when _flatten returns: __flatten is given
\* copy.deepcopy(dictionary), so the pops do not reach the argument
ArgumentAfter(dictionary) == dictionary

RECURSIVE _flatten(_)
_flatten(dictionary) ==
    IF dictionary = <<>> THEN <<>>
    ELSE LET item == dictionary[Len(dictionary)]              \* popitem()
             rest == SubSeq(dictionary, 1, Len(dictionary) - 1)
             key == item[1]
             value == item[2]
         IN IF ~IsDict(value) \/ value[2] = <<>>
            THEN Update(<<<<key, value>>>>, _flatten(rest))
            ELSE LET flat_sub_dictionary == _flatten(value[2])
                 IN Update(PrefixKeys(flat_sub_dictionary,
                                      KeyList(flat_sub_dictionary), key),
                           _flatten(rest))

\* sub_dictionary[parts...] = value inside the dictionary being built;
\* "TypeError" when a part already holds a value that is not a dict
RECURSIVE SetPath(_, _, _)
SetPath(sub_dictionary, parts, value) ==
    IF Len(parts) = 1 THEN Ok(Put(sub_dictionary, parts[1], value))
    ELSE LET part == parts[1]
             created == IF Has(sub_dictionary, part) THEN sub_dictionary
                        ELSE Put(sub_dictionary, part, DictV(<<>>))
             child == Get(created, part)
         IN IF ~IsDict(child) THEN Raise("TypeError")
            ELSE LET inner == SetPath(child[2], Tail(parts), value)
                 IN IF inner.err # "none" THEN inner
                    ELSE Ok(Put(created, part, DictV(inner.val)))

RECURSIVE UnflattenFrom(_, _)
UnflattenFrom(unflattened_dictionary, dictionary) ==
    IF dictionary = <<>> THEN Ok(unflattened_dictionary)
    ELSE LET step == SetPath(unflattened_dictionary, split(dictionary[1][1]),
                             dictionary[1][2])
         IN IF step.err # "none" THEN step
            ELSE UnflattenFrom(step.val, Tail(dictionary))

_unflatten(dictionary) == UnflattenFrom(<<>>, dictionary)

(***************************************************************************)
(* EphemeralDocument: a document is its flat dictionary _data.             *)
(***************************************************************************)
OP_IN == <<"$", "i", "n">>
OP_GTE == <<"$", "g", "t", "e">>
OP_GT == <<"$", "g", "t">>
OP_LTE == <<"$", "l", "t", "e">>

\* the table EphemeralDocument.operators
operators == {OP_IN, OP_GTE, OP_GT, OP_LTE}

\* operators[operator](a, b); comparing an int with a dict or a list, or
\* testing membership in an int, is a TypeError
ApplyOperator(operator, a, b) ==
    IF operator = OP_IN
    THEN IF IsList(b) THEN Ok(\E i \in DOMAIN b[2] : b[2][i] = a)
         ELSE IF IsDict(b) THEN Ok(Has(b[2], a))
         ELSE Raise("TypeError")
    ELSE IF a = NoneV THEN Ok(FALSE)
    ELSE IF ~(IsInt(a) /\ IsInt(b)) THEN Raise("TypeError")
    ELSE IF operator = OP_GTE THEN Ok(a[2] >= b[2])
    ELSE IF operator = OP_GT THEN Ok(a[2] > b[2])
    ELSE Ok(a[2] =< b[2])

Last(seq) == seq[Len(seq)]

_is_operator(key) == startswith(Last(split(key)), <<"$">>)

_get_key_operator(key) ==
    LET parts == split(key)
        operator == Last(parts)
    IN IF operator \notin operators THEN Raise("ValueError")
       ELSE Ok(<<join(SubSeq(parts, 1, Len(parts) - 1)), operator>>)

match_key(data, key, value) ==
    IF _is_operator(key)
    THEN LET ko == _get_key_operator(key)
         IN IF ko.err # "none" THEN ko
            ELSE IF ~Has(data, ko.val[1]) THEN Ok(FALSE)
            ELSE ApplyOperator(ko.val[2], Get(data, ko.val[1]), value)
    ELSE Ok(Has(data, key) /\ Get(data, key) = value)

RECURSIVE MatchItems(_, _)
MatchItems(data, query) ==
    IF query = <<>> THEN Ok(TRUE)
    ELSE LET r == match_key(data, query[1][1], query[1][2])
         IN IF r.err # "none" THEN r
            ELSE IF ~r.val THEN Ok(FALSE)
            ELSE MatchItems(data, Tail(query))

match(data, query) ==
    IF query = NoneV \/ query = DictV(<<>>) THEN Ok(TRUE)
    ELSE MatchItems(data, _flatten(query[2]))

RECURSIVE SumValues(_)
SumValues(keys) ==
    IF keys = <<>> THEN 0 ELSE keys[1][2][2] + SumValues(Tail(keys))

_validate_keys(data, keys) ==
    IF Len(keys) = 1 /\ Has(keys, ID) /\ Get(keys, ID) = IntV(1) THEN Ok(keys)
    ELSE LET keys_without_id == SelectSeq(keys, LAMBDA p : p[1] # ID)
             n_keys == SumValues(keys_without_id)
         IN IF n_keys # 0 /\ n_keys # Len(keys_without_id)
            THEN Raise("ValueError")
            ELSE IF n_keys = 0
            THEN LET kept == SelectSeq(data, LAMBDA p : ~Has(keys, p[1]))
                     new_keys == [i \in DOMAIN kept |-> <<kept[i][1], IntV(1)>>]
                 IN Ok(Put(new_keys, ID,
                           IF Has(keys, ID) THEN Get(keys, ID) ELSE IntV(1)))
            ELSE Ok(IF Has(keys, ID) THEN keys ELSE Put(keys, ID, IntV(1)))

\* key_is_match raises IndexError when key.replace(selected_key, '') is empty
KeyIsMatchRaises(key, selected_key) ==
    /\ key # selected_key
    /\ startswith(key, selected_key)
    /\ replace(key, selected_key) = <<>>

key_is_match(key, selected_key) ==
    \/ key = selected_key
    \/ /\ startswith(key, selected_key)
       /\ replace(key, selected_key)[1] = "."

Included(keys) == SelectSeq(keys, LAMBDA p : p[2] # IntV(0))

select(data, keys) ==
    IF keys = NoneV \/ keys = DictV(<<>>) THEN _unflatten(data)
    ELSE LET valid == _validate_keys(data, _flatten(keys[2]))
         IN IF valid.err # "none" THEN valid
            ELSE LET inc == Included(valid.val)
                 IN IF \E i \in DOMAIN data : \E j \in DOMAIN inc :
                           KeyIsMatchRaises(data[i][1], inc[j][1])
                    THEN Raise("IndexError")
                    ELSE _unflatten(SelectSeq(data, LAMBDA p :
                             \E j \in DOMAIN inc : key_is_match(p[1], inc[j][1])))

\* EphemeralDocument.update
update(data, upd) ==
    Update(data, _flatten(IF Has(upd, SET) THEN Get(upd, SET)[2] ELSE upd))

(***************************************************************************)
(* EphemeralCollection.                                                    *)
(*   _documents: sequence of [serial, data]; serial is the position of the *)
(*       document in the order of all appends (it stands for the identity  *)
(*       of the EphemeralDocument object, which update mutates in place).  *)
(*   _indexes: the dict from key tuple to value set, as its item sequence. *)
(***************************************************************************)
VARIABLES _documents, _indexes, appended, last

vars == <<_documents, _indexes, appended, last>>

Data(docs) == [i \in DOMAIN docs |-> docs[i].data]

\* tuple(document[key] for key in index): KeyError on a missing key; the
\* tuple is hashed by the set lookup, TypeError on a dict or list inside
DocumentValues(data, index) ==
    IF \E i \in DOMAIN index : ~Has(data, index[i]) THEN Raise("KeyError")
    ELSE LET document_values == [i \in DOMAIN index |-> Get(data, index[i])]
         IN IF \E i \in DOMAIN index : ~IsInt(document_values[i])
            THEN Raise("TypeError")
            ELSE Ok(document_values)

\* _validate_index as it would be if it passed over the indexes of which the
\* document lacks a field
RECURSIVE _validate_index_lenient(_, _, _)
_validate_index_lenient(indexes, data, names) ==
    IF names = <<>> THEN Ok(TRUE)
    ELSE LET document_values == DocumentValues(data, names[1])
         IN IF document_values.err = "KeyError"
            THEN _validate_index_lenient(indexes, data, Tail(names))
            ELSE IF document_values.err # "none" THEN document_values
            ELSE IF document_values.val \in Get(indexes, names[1])
            THEN Raise("DuplicateKeyError")
            ELSE _validate_index_lenient(indexes, data, Tail(names))

\* indexes: the dict self._indexes; names: the key tuples to validate
RECURSIVE _validate_index(_, _, _)
_validate_index(indexes, data, names) ==
    IF names = <<>> THEN Ok(TRUE)
    ELSE LET document_values == DocumentValues(data, names[1])
         IN IF document_values.err # "none" THEN document_values
            ELSE IF document_values.val \in Get(indexes, names[1])
            THEN Raise("DuplicateKeyError")
            ELSE _validate_index(indexes, data, Tail(names))

\* _register_keys as it would be if it added nothing to the value sets
_register_keys_skipping(indexes, data) == indexes

_register_keys(indexes, data) ==
    [i \in DOMAIN indexes |->
        <<indexes[i][1],
          indexes[i][2] \cup {DocumentValues(data, indexes[i][1]).val}>>]

Max(S) == CHOOSE x \in S : \A y \in S : y =< x

_get_new_id(docs) ==
    IF docs = <<>> THEN Ok(1)
    ELSE IF \E i \in DOMAIN docs : ~Has(docs[i].data, ID) THEN Raise("KeyError")
    ELSE IF \E i \in DOMAIN docs : ~IsInt(Get(docs[i].data, ID))
    THEN Raise("TypeError")
    ELSE Ok(Max({Get(docs[i].data, ID)[2] : i \in DOMAIN docs}) + 1)

\* the scan of create_index over the documents, from the state st
RECURSIVE CreateIndexScan(_, _, _)
CreateIndexScan(indexes, keys, docs) ==
    IF docs = <<>> THEN [indexes |-> indexes, err |-> "none"]
    ELSE LET valid == _validate_index(indexes, docs[1].data, <<keys>>)
         IN IF valid.err # "none" THEN [indexes |-> indexes, err |-> valid.err]
            ELSE CreateIndexScan(
                     Put(indexes, keys,
                         Get(indexes, keys)
                             \cup {DocumentValues(docs[1].data, keys).val}),
                     keys, Tail(docs))

\* keys: <<"str", key>> or <<"list", sequence of <<key, order>>>>
NormalKeys(keys) ==
    IF keys[1] = "str" THEN <<keys[2]>>
    ELSE [i \in DOMAIN keys[2] |-> keys[2][i][1]]

\* create_index as it would be if a failing scan discarded the new index
create_index_discarding(indexes, docs, keys, unique) ==
    IF unique /\ ~Has(indexes, NormalKeys(keys))
    THEN LET scan == CreateIndexScan(Put(indexes, NormalKeys(keys), {}),
                                     NormalKeys(keys), docs)
         IN IF scan.err # "none" THEN [indexes |-> indexes, err |-> scan.err]
            ELSE scan
    ELSE [indexes |-> indexes, err |-> "none"]

create_index(indexes, docs, keys, unique) ==
    IF unique /\ ~Has(indexes, NormalKeys(keys))
    THEN CreateIndexScan(Put(indexes, NormalKeys(keys), {}), NormalKeys(keys), docs)
    ELSE [indexes |-> indexes, err |-> "none"]

\* the loop of insert_many over the records not yet inserted
RECURSIVE InsertLoop(_, _, _, _)
InsertLoop(docs, indexes, serials, documents) ==
    IF documents = <<>>
    THEN [docs |-> docs, indexes |-> indexes, count |-> serials, err |-> "none"]
    ELSE LET new_id == IF Has(documents[1], ID) THEN Ok(0) ELSE _get_new_id(docs)
             document == IF Has(documents[1], ID) THEN documents[1]
                         ELSE Put(documents[1], ID, IntV(new_id.val))
             data == _flatten(document)
             valid == _validate_index(indexes, data, KeyList(indexes))
         IN IF new_id.err # "none"
            THEN [docs |-> docs, indexes |-> indexes, count |-> serials,
                  err |-> new_id.err]
            ELSE IF valid.err # "none"
            THEN [docs |-> docs, indexes |-> indexes, count |-> serials,
                  err |-> valid.err]
            ELSE InsertLoop(Append(docs, [serial |-> serials + 1, data |-> data]),
                            _register_keys(indexes, data), serials + 1,
                            Tail(documents))

\* insert_many as it would be if a failing batch were rolled back
insert_many_atomic(docs, indexes, serials, documents) ==
    LET done == InsertLoop(docs, indexes, serials, documents)
    IN IF done.err = "none"
       THEN [docs |-> done.docs, indexes |-> done.indexes, count |-> done.count,
             err |-> "none", val |-> Len(documents)]
       ELSE [docs |-> docs, indexes |-> indexes, count |-> serials,
             err |-> done.err, val |-> 0]

insert_many(docs, indexes, serials, documents) ==
    LET done == InsertLoop(docs, indexes, serials, documents)
    IN [docs |-> done.docs, indexes |-> done.indexes, count |-> done.count,
        err |-> done.err,
        val |-> IF done.err = "none" THEN Len(documents) ELSE 0]

\* the loop of update_many: docs already visited, docs still to visit
RECURSIVE UpdateLoop(_, _, _, _, _)
UpdateLoop(visited, rest, query, upd, updates) ==
    IF rest = <<>> THEN [docs |-> visited, err |-> "none", val |-> updates]
    ELSE LET m == match(rest[1].data, query)
         IN IF m.err # "none"
            THEN [docs |-> visited \o rest, err |-> m.err, val |-> 0]
            ELSE IF m.val
            THEN UpdateLoop(Append(visited,
                                [rest[1] EXCEPT !.data = update(rest[1].data, upd)]),
                            Tail(rest), query, upd, updates + 1)
            ELSE UpdateLoop(Append(visited, rest[1]), Tail(rest), query, upd,
                            updates)

\* update_many as it would be if it validated the indexes as documented
update_many_validating(docs, indexes, query, upd) ==
    LET done == UpdateLoop(<<>>, docs, query, upd, 0)
        collides ==
            \E k \in DOMAIN indexes : \E i \in DOMAIN done.docs :
                \E j \in DOMAIN done.docs :
                    /\ i # j
                    /\ DocumentValues(done.docs[i].data, indexes[k][1]).err = "none"
                    /\ DocumentValues(done.docs[i].data, indexes[k][1])
                           = DocumentValues(done.docs[j].data, indexes[k][1])
    IN IF done.err = "none" /\ done.val > 0 /\ collides
       THEN [docs |-> docs, indexes |-> indexes, err |-> "DuplicateKeyError",
             val |-> 0]
       ELSE [docs |-> done.docs, indexes |-> indexes, err |-> done.err,
             val |-> done.val]

update_many(docs, indexes, query, upd) ==
    LET done == UpdateLoop(<<>>, docs, query, upd, 0)
    IN [docs |-> done.docs, indexes |-> indexes, err |-> done.err, val |-> done.val]

\* the loop of delete_many
RECURSIVE DeleteLoop(_, _, _, _)
DeleteLoop(retained_documents, rest, query, deleted) ==
    IF rest = <<>>
    THEN [docs |-> retained_documents, err |-> "none", val |-> deleted]
    ELSE LET m == match(rest[1].data, query)
         IN IF m.err # "none" THEN [docs |-> <<>>, err |-> m.err, val |-> 0]
            ELSE IF ~m.val
            THEN DeleteLoop(Append(retained_documents, rest[1]), Tail(rest),
                            query, deleted)
            ELSE DeleteLoop(retained_documents, Tail(rest), query, deleted + 1)

\* delete_many as it would be if it pruned the value sets of the indexes
delete_many_pruning(docs, indexes, query) ==
    LET done == DeleteLoop(<<>>, docs, query, 0)
        kept(index) ==
            {DocumentValues(done.docs[i].data, index).val : i \in DOMAIN done.docs}
    IN [docs |-> IF done.err # "none" THEN docs ELSE done.docs,
        indexes |-> IF done.err # "none" THEN indexes
                    ELSE [i \in DOMAIN indexes |->
                             <<indexes[i][1],
                               indexes[i][2] \cap kept(indexes[i][1])>>],
        err |-> done.err, val |-> done.val]

\* self._documents is assigned only after the loop has ended without raising
delete_many(docs, indexes, query) ==
    LET done == DeleteLoop(<<>>, docs, query, 0)
    IN [docs |-> IF done.err # "none" THEN docs ELSE done.docs,
        indexes |-> indexes, err |-> done.err, val |-> done.val]

drop(docs, indexes) == [docs |-> <<>>, indexes |-> <<>>]

\* FindLoop as it would be if it put each match in front of the others
RECURSIVE FindLoopPrepending(_, _, _, _)
FindLoopPrepending(found_documents, rest, query, selection) ==
    IF rest = <<>> THEN Ok(found_documents)
    ELSE LET m == match(rest[1].data, query)
         IN IF m.err # "none" THEN m
            ELSE IF ~m.val
            THEN FindLoopPrepending(found_documents, Tail(rest), query, selection)
            ELSE LET selected == select(rest[1].data, selection)
                 IN IF selected.err # "none" THEN selected
                    ELSE FindLoopPrepending(<<selected.val>> \o found_documents,
                                            Tail(rest), query, selection)

RECURSIVE FindLoop(_, _, _, _)
FindLoop(found_documents, rest, query, selection) ==
    IF rest = <<>> THEN Ok(found_documents)
    ELSE LET m == match(rest[1].data, query)
         IN IF m.err # "none" THEN m
            ELSE IF ~m.val
            THEN FindLoop(found_documents, Tail(rest), query, selection)
            ELSE LET selected == select(rest[1].data, selection)
                 IN IF selected.err # "none" THEN selected
                    ELSE FindLoop(Append(found_documents, selected.val),
                                  Tail(rest), query, selection)

find(docs, query, selection) == FindLoop(<<>>, docs, query, selection)

count(docs, query) ==
    LET found == find(docs, query, NoneV)
    IN IF found.err # "none" THEN found ELSE Ok(Len(found.val))

(***************************************************************************)
(* EphemeralDB, for the one collection of the model.                       *)
(***************************************************************************)
\* EphemeralDB.write with a query: update_many(query, {'$set': data})
write(docs, indexes, data, query) ==
    update_many(docs, indexes, query, <<<<SET, DictV(data)>>>>)

\* EphemeralDB.read
read(docs, query, selection) == find(docs, query, selection)

\* return self.read(collection_name, id_query)[0], after the write
ReturnReread(written, reread) ==
    IF written.err # "none" THEN [written EXCEPT !.val = <<>>]
    ELSE IF reread.err # "none" THEN [written EXCEPT !.err = reread.err, !.val = <<>>]
    ELSE IF reread.val = <<>> THEN [written EXCEPT !.err = "IndexError", !.val = <<>>]
    ELSE [written EXCEPT !.val = DictV(reread.val[1])]

\* self.write(collection_name, data, id_query) and the read that follows
WriteThenRead(written, id_query) ==
    ReturnReread(written, read(written.docs, id_query, NoneV))

\* UpdateFound as it would be without the test "if not dbdoc"
UpdateFoundUnchecked(docs, indexes, data, dbdoc) ==
    IF dbdoc.err # "none"
    THEN [docs |-> docs, indexes |-> indexes, err |-> dbdoc.err, val |-> <<>>]
    ELSE IF dbdoc.val = <<>>
    THEN [docs |-> docs, indexes |-> indexes, err |-> "IndexError", val |-> <<>>]
    ELSE IF ~Has(dbdoc.val[1], ID)
    THEN [docs |-> docs, indexes |-> indexes, err |-> "KeyError", val |-> <<>>]
    ELSE WriteThenRead(
             write(docs, indexes, data, DictV(<<<<ID, Get(dbdoc.val[1], ID)>>>>)),
             DictV(<<<<ID, Get(dbdoc.val[1], ID)>>>>))

\* the body of read_and_write once dbdoc has been read
UpdateFound(docs, indexes, data, dbdoc) ==
    IF dbdoc.err # "none"
    THEN [docs |-> docs, indexes |-> indexes, err |-> dbdoc.err, val |-> <<>>]
    ELSE IF dbdoc.val = <<>>
    THEN [docs |-> docs, indexes |-> indexes, err |-> "none", val |-> NoneV]
    ELSE IF ~Has(dbdoc.val[1], ID)
    THEN [docs |-> docs, indexes |-> indexes, err |-> "KeyError", val |-> <<>>]
    ELSE WriteThenRead(
             write(docs, indexes, data, DictV(<<<<ID, Get(dbdoc.val[1], ID)>>>>)),
             DictV(<<<<ID, Get(dbdoc.val[1], ID)>>>>))

\* EphemeralDB.read_and_write: the collection afterwards and what is returned
read_and_write(docs, indexes, query, data, selection) ==
    UpdateFound(docs, indexes, data, read(docs, query, NoneV))

(***************************************************************************)
(* The inputs the calls are made with.                                     *)
(***************************************************************************)
KA == <<"a">>
Vals == 1..MaxVal

InsertRecords ==
    {<<>>, <<<<ID, IntV(1)>>>>} \cup {<<<<KA, IntV(v)>>>> : v \in Vals}

BatchRecords == {<<<<KA, IntV(v)>>>> : v \in Vals}

Batches ==
    {<<r>> : r \in InsertRecords}
    \cup UNION {[1..n -> BatchRecords] : n \in 2..MaxBatch}

Queries ==
    {NoneV, DictV(<<<<KA, IntV(1)>>>>),
     DictV(<<<<KA \o <<".">> \o OP_GTE, IntV(MaxVal)>>>>)}

Updates ==
    {<<<<KA, IntV(1)>>>>, <<<<ID, IntV(1)>>>>,
     <<<<SET, DictV(<<<<KA, IntV(MaxVal)>>>>)>>>>}

IndexKeys == {<<"str", ID>>, <<"str", KA>>, <<"list", <<<<KA, 1>>>>>>}

Selections == {NoneV, DictV(<<<<KA, IntV(1)>>>>), DictV(<<<<ID, IntV(0)>>>>)}

RWQueries == {DictV(<<<<KA, IntV(v)>>>>) : v \in Vals}
RWData == {<<<<KA, IntV(MaxVal)>>>>}

(***************************************************************************)
(* The state machine: one action per call.  last records the call made:    *)
(* its name, the number of documents before it, and what it returned or    *)
(* raised.                                                                 *)
(***************************************************************************)
Called(op, r) ==
    [op |-> op, before |-> Len(_documents), err |-> r.err, val |-> r.val]

\* EphemeralCollection.__init__
Init ==
    LET made == create_index(<<>>, <<>>, <<"str", ID>>, TRUE)
    IN /\ _documents = <<>>
       /\ _indexes = made.indexes
       /\ appended = 0
       /\ last = [op |-> "__init__", before |-> 0, err |-> "none", val |-> 0]

InsertManyCall(documents) ==
    LET r == insert_many(_documents, _indexes, appended, documents)
    IN /\ _documents' = r.docs
       /\ _indexes' = r.indexes
       /\ appended' = r.count
       /\ last' = Called("insert_many", r)

InsertMany ==
    \E documents \in Batches :
        /\ appended + Len(documents) =< MaxInserts
        /\ InsertManyCall(documents)

\* insert_many of a single record
InsertOne ==
    \E record \in InsertRecords :
        /\ appended < MaxInserts
        /\ InsertManyCall(<<record>>)

UpdateManyCall(query, upd) ==
    LET r == update_many(_documents, _indexes, query, upd)
    IN /\ _documents' = r.docs
       /\ _indexes' = r.indexes
       /\ last' = Called("update_many", r)
       /\ UNCHANGED appended

UpdateMany == \E query \in Queries, upd \in Updates : UpdateManyCall(query, upd)

DeleteManyCall(query) ==
    LET r == delete_many(_documents, _indexes, query)
    IN /\ _documents' = r.docs
       /\ _indexes' = r.indexes
       /\ last' = Called("delete_many", r)
       /\ UNCHANGED appended

DeleteMany == \E query \in Queries : DeleteManyCall(query)

CreateIndexCall(keys, unique) ==
    LET r == create_index(_indexes, _documents, keys, unique)
    IN /\ _indexes' = r.indexes
       /\ last' = Called("create_index", [err |-> r.err, val |-> 0])
       /\ UNCHANGED <<_documents, appended>>

CreateIndex ==
    \E keys \in IndexKeys, unique \in BOOLEAN : CreateIndexCall(keys, unique)

Drop ==
    LET r == drop(_documents, _indexes)
    IN /\ _documents' = r.docs
       /\ _indexes' = r.indexes
       /\ last' = Called("drop", [err |-> "none", val |-> 0])
       /\ UNCHANGED appended

FindCall(query, selection) ==
    /\ last' = Called("find", find(_documents, query, selection))
    /\ UNCHANGED <<_documents, _indexes, appended>>

Find == \E query \in Queries, selection \in Selections : FindCall(query, selection)

ReadAndWriteCall(query, data, selection) ==
    LET r == read_and_write(_documents, _indexes, query, data, selection)
    IN /\ _documents' = r.docs
       /\ _indexes' = r.indexes
       /\ last' = Called("read_and_write", r)
       /\ UNCHANGED appended

ReadAndWrite ==
    \E query \in RWQueries, data \in RWData, selection \in Selections :
        ReadAndWriteCall(query, data, selection)

\* the mutating methods of EphemeralCollection, in any order
Next ==
    \/ InsertMany
    \/ UpdateMany
    \/ DeleteMany
    \/ CreateIndex
    \/ Drop

Spec == Init /\ [][Next]_vars

\* inserts, deletions and index creation only
NextIndex ==
    \/ InsertMany
    \/ DeleteMany
    \/ CreateIndex

SpecIndex == Init /\ [][NextIndex]_vars

\* inserts, updates and index creation
NextUpdate ==
    \/ InsertOne
    \/ UpdateMany
    \/ CreateIndex

SpecUpdate == Init /\ [][NextUpdate]_vars

\* the collection as find observes it
NextFind ==
    \/ InsertOne
    \/ UpdateMany
    \/ DeleteMany
    \/ Find

SpecFind == Init /\ [][NextFind]_vars

\* the calls of the EphemeralDB facade: write, read, read_and_write
NextDB ==
    \/ InsertOne
    \/ UpdateMany
    \/ Find
    \/ ReadAndWrite

SpecDB == Init /\ [][NextDB]_vars

\* nested records and updates: the documents as the codec stores them
KB == <<"b">>
KAB == KA \o <<".">> \o KB

NestedRecords ==
    {<<>>, <<<<KA, IntV(1)>>>>, <<<<KA, DictV(<<<<KB, IntV(1)>>>>)>>>>,
     <<<<KB, IntV(1)>>, <<KA, DictV(<<<<KB, IntV(MaxVal)>>>>)>>>>}

NestedUpdates ==
    {<<<<KA, IntV(MaxVal)>>>>,
     <<<<KA, DictV(<<<<KB, IntV(MaxVal)>>>>)>>>>,
     <<<<SET, DictV(<<<<KB, IntV(MaxVal)>>, <<KA, DictV(<<<<KB, IntV(1)>>>>)>>>>)>>>>,
     <<<<KA, DictV(<<<<KA, DictV(<<<<KB, IntV(1)>>>>)>>, <<KB, IntV(MaxVal)>>>>)>>>>}

NestedQueries ==
    {NoneV, DictV(<<<<KA, IntV(1)>>>>), DictV(<<<<KAB, IntV(1)>>>>)}

InsertNested ==
    \E record \in NestedRecords :
        /\ appended < MaxNested
        /\ InsertManyCall(<<record>>)

UpdateNested ==
    \E query \in NestedQueries, upd \in NestedUpdates : UpdateManyCall(query, upd)

FindNested == \E query \in NestedQueries : FindCall(query, NoneV)

NextNested ==
    \/ InsertNested
    \/ UpdateNested
    \/ FindNested

SpecNested == Init /\ [][NextNested]_vars

\* the codec alone: a nested record is flattened, unflattened and flattened
\* again; last.val holds the record and what each call has returned
Leafs == {IntV(1), DictV(<<>>)}

RECURSIVE NestedDicts(_)
NestedDicts(depth) ==
    LET values == IF depth =< 1 THEN Leafs
                  ELSE Leafs \cup {DictV(d) : d \in NestedDicts(depth - 1) \ {<<>>}}
    IN {<<>>}
       \cup {<<<<k, v>>>> : k \in {KA, KB}, v \in values}
       \cup {<<<<KA, v>>, <<KB, w>>>> : v \in values, w \in Leafs}
       \cup {<<<<KB, w>>, <<KA, v>>>> : v \in values, w \in Leafs}

InitCodec ==
    /\ _documents = <<>>
    /\ _indexes = <<>>
    /\ appended = 0
    /\ \E r \in NestedDicts(MaxDepth) :
           last = [op |-> "record", before |-> 0, err |-> "none",
                   val |-> [record |-> r]]

FlattenCall ==
    /\ last.op = "record"
    /\ last' = [op |-> "_flatten", before |-> 0, err |-> "none",
                val |-> [record |-> last.val.record,
                         dictionary |-> ArgumentAfter(last.val.record),
                         flat |-> _flatten(last.val.record)]]
    /\ UNCHANGED <<_documents, _indexes, appended>>

UnflattenCall ==
    /\ last.op = "_flatten"
    /\ LET r == _unflatten(last.val.flat)
       IN last' = [op |-> "_unflatten", before |-> 0, err |-> r.err,
                   val |-> [record |-> last.val.record,
                            dictionary |-> last.val.dictionary,
                            flat |-> last.val.flat,
                            nested |-> r.val]]
    /\ UNCHANGED <<_documents, _indexes, appended>>

FlattenAgainCall ==
    /\ last.op = "_unflatten"
    /\ last.err = "none"
    /\ last' = [op |-> "_flatten again", before |-> 0, err |-> "none",
                val |-> [record |-> last.val.record,
                         dictionary |-> last.val.dictionary,
                         flat |-> last.val.flat,
                         nested |-> last.val.nested,
                         again |-> _flatten(last.val.nested)]]
    /\ UNCHANGED <<_documents, _indexes, appended>>

NextCodec ==
    \/ FlattenCall
    \/ UnflattenCall
    \/ FlattenAgainCall

SpecCodec == InitCodec /\ [][NextCodec]_vars

\* select alone: documents whose field names are prefixes of one another or
\* dotted descendants, found through inclusion, exclusion and mixed selections
KAA == KA \o KA
KC == <<"c">>
KBX == KB \o <<"x">>

SelectRecords ==
    {<<<<KA, IntV(1)>>, <<KB, IntV(MaxVal)>>>>,
     <<<<KAA, IntV(1)>>, <<KB, IntV(MaxVal)>>>>,
     <<<<KA, IntV(1)>>, <<KAA, IntV(MaxVal)>>>>,
     <<<<KA, DictV(<<<<KB, DictV(<<<<KC, IntV(1)>>>>)>>, <<KBX, IntV(MaxVal)>>>>)>>>>}

InclusionSelections ==
    {DictV(<<<<KA, IntV(1)>>>>),
     DictV(<<<<KA, DictV(<<<<KB, IntV(1)>>>>)>>>>),
     DictV(<<<<KB, IntV(1)>>, <<ID, IntV(0)>>>>),
     DictV(<<<<KAB, IntV(1)>>, <<ID, IntV(1)>>>>)}

ExclusionSelections ==
    {DictV(<<<<KA, IntV(0)>>>>),
     DictV(<<<<KB, IntV(0)>>, <<ID, IntV(0)>>>>),
     DictV(<<<<ID, IntV(0)>>>>),
     DictV(<<<<ID, IntV(1)>>>>)}

MixedSelections ==
    {DictV(<<<<KA, IntV(1)>>, <<KB, IntV(0)>>>>),
     DictV(<<<<KB, IntV(0)>>, <<KAA, IntV(1)>>, <<ID, IntV(0)>>>>)}

InsertSelect ==
    \E record \in SelectRecords :
        /\ appended < MaxNested
        /\ InsertManyCall(<<record>>)

FindSelect ==
    \E selection \in InclusionSelections \cup ExclusionSelections \cup MixedSelections :
        FindCall(NoneV, selection)

NextSelect ==
    \/ InsertSelect
    \/ FindSelect

SpecSelect == Init /\ [][NextSelect]_vars

\* queries with operators: a token that is not in the table, alone, nested,
\* before and after another key of the query, and an operator of the table
\* on the field b, which no document has
OP_FOO == <<"$", "f", "o", "o">>

UnsupportedQueries ==
    {DictV(<<<<KA \o <<".">> \o OP_FOO, IntV(1)>>>>),
     DictV(<<<<KA, DictV(<<<<OP_FOO, IntV(1)>>>>)>>>>),
     DictV(<<<<KB, IntV(1)>>, <<KA \o <<".">> \o OP_FOO, IntV(1)>>>>),
     DictV(<<<<KA \o <<".">> \o OP_FOO, IntV(1)>>, <<KA, IntV(1)>>>>)}

MissingFieldQueries ==
    {DictV(<<<<KB \o <<".">> \o OP_GTE, IntV(1)>>>>),
     DictV(<<<<KB \o <<".">> \o OP_IN, ListV(<<IntV(1)>>)>>>>)}

OperatorQueries ==
    UnsupportedQueries \cup MissingFieldQueries
    \cup {DictV(<<<<KA \o <<".">> \o OP_GTE, IntV(MaxVal)>>>>)}

CountCall(query) ==
    /\ last' = Called("count", count(_documents, query))
    /\ UNCHANGED <<_documents, _indexes, appended>>

FindQuery == \E query \in OperatorQueries : FindCall(query, NoneV)

CountQuery == \E query \in OperatorQueries : CountCall(query)

UpdateQuery ==
    \E query \in OperatorQueries : UpdateManyCall(query, <<<<KA, IntV(1)>>>>)

DeleteQuery == \E query \in OperatorQueries : DeleteManyCall(query)

NextQuery ==
    \/ InsertOne
    \/ FindQuery
    \/ CountQuery
    \/ UpdateQuery
    \/ DeleteQuery

SpecQuery == Init /\ [][NextQuery]_vars

\* the collection without update_many and drop, in which every create_index
\* call returns normally
CreateIndexReturning ==
    \E keys \in IndexKeys, unique \in BOOLEAN :
        /\ create_index(_indexes, _documents, keys, unique).err = "none"
        /\ CreateIndexCall(keys, unique)

NextSound ==
    \/ InsertMany
    \/ DeleteMany
    \/ CreateIndexReturning

SpecSound == Init /\ [][NextSound]_vars

(***************************************************************************)
(* Vocabulary of the properties.                                           *)
(***************************************************************************)
ItemSet(d) == {d[i] : i \in DOMAIN d}
IdOf(doc) == Get(doc.data, ID)
HasAll(d, index) == \A i \in DOMAIN index : Has(d, index[i])
TupleOf(d, index) == [i \in DOMAIN index |-> Get(d, index[i])]
Matching(docs, query) == {i \in DOMAIN docs : match(docs[i].data, query).val}
\* the _id a record without _id is given when docs are the stored documents
NewIdAfter(docs) ==
    IF docs = <<>> THEN 1 ELSE 1 + Max({IdOf(docs[i])[2] : i \in DOMAIN docs})
\* record has every field, other than _id, of every tracked index
CarriesIndexed(record, indexes) ==
    \A i \in DOMAIN indexes : \A k \in DOMAIN indexes[i][1] :
        indexes[i][1][k] = ID \/ Has(record, indexes[i][1][k])

(***************************************************************************)
(* C1.  In every state reached by insert_many, update_many, delete_many,   *)
(* create_index and drop calls, no two documents of the collection have    *)
(* the same _id.                                                           *)
(***************************************************************************)
C1_IdsUnique ==
    \A i \in DOMAIN _documents : \A j \in DOMAIN _documents :
        i # j => IdOf(_documents[i]) # IdOf(_documents[j])

(***************************************************************************)
(* C2.  Once create_index(K, unique=True) has returned normally, an        *)
(* insert_many of a record whose value-tuple on K equals that of a         *)
(* document in the collection fails with duplicate-key and adds no         *)
(* document.  Stated for the state in which the call has just returned,    *)
(* the first of the states the claim covers, and for records that carry    *)
(* every indexed field.                                                    *)
(***************************************************************************)
RejectsDuplicatesOn(docs, indexes, serials, index) ==
    \A record \in InsertRecords :
        (/\ HasAll(record, index)
         /\ CarriesIndexed(record, indexes)
         /\ \E i \in DOMAIN docs :
                /\ HasAll(docs[i].data, index)
                /\ TupleOf(docs[i].data, index) = TupleOf(record, index))
        => LET r == insert_many(docs, indexes, serials, <<record>>)
           IN r.err = "DuplicateKeyError" /\ r.docs = docs

C2_UniqueOnceCreated ==
    [][\A keys \in IndexKeys :
           (CreateIndexCall(keys, TRUE) /\ last'.err = "none")
           => RejectsDuplicatesOn(_documents', _indexes', appended',
                                  NormalKeys(keys))]_vars

(***************************************************************************)
(* C3.  In every reachable state, insert_many of one record without _id    *)
(* is accepted and stores it with _id = 1 when the collection holds no     *)
(* document, and with _id = k + 1 when k is the largest _id in the         *)
(* collection.  Stated for records that carry every indexed field and      *)
(* whose values on the indexes other than _id are not registered.          *)
(***************************************************************************)
FreeOnOtherIndexes(record, indexes) ==
    \A i \in DOMAIN indexes :
        (indexes[i][1] # <<ID>> /\ HasAll(record, indexes[i][1]))
        => TupleOf(record, indexes[i][1]) \notin indexes[i][2]

C3_AutoIdAccepted ==
    \A record \in InsertRecords :
        (/\ ~Has(record, ID)
         /\ CarriesIndexed(record, _indexes)
         /\ FreeOnOtherIndexes(record, _indexes))
        => LET r == insert_many(_documents, _indexes, appended, <<record>>)
           IN /\ r.err = "none"
              /\ Len(r.docs) = Len(_documents) + 1
              /\ IdOf(r.docs[Len(r.docs)]) = IntV(NewIdAfter(_documents))

(***************************************************************************)
(* C4.  In every reachable state ('_id',) is a tracked unique index, so    *)
(* that insert_many of a record whose explicit _id is the _id of a         *)
(* document in the collection fails with duplicate-key.                    *)
(***************************************************************************)
C4_IdIndexTracked ==
    /\ Has(_indexes, <<ID>>)
    /\ \A i \in DOMAIN _documents :
           insert_many(_documents, _indexes, appended,
                       <<<<<<ID, IdOf(_documents[i])>>>>>>).err
               = "DuplicateKeyError"

(***************************************************************************)
(* C5.  create_index(a, unique=True) on a collection in which two          *)
(* documents have equal values of a fails with duplicate-key, and          *)
(* afterwards no insert_many is accepted for a record whose value of a     *)
(* is the value of a of a document in the collection.  Stated for          *)
(* collections in which every document has the field a, and for the state  *)
(* in which the call has just failed.                                      *)
(***************************************************************************)
TwoEqualOn(docs, key) ==
    \E i \in DOMAIN docs : \E j \in DOMAIN docs :
        /\ i # j
        /\ Has(docs[i].data, key) /\ Has(docs[j].data, key)
        /\ Get(docs[i].data, key) = Get(docs[j].data, key)

NoCollidingInsert(docs, indexes, serials, key) ==
    \A record \in InsertRecords :
        (/\ Has(record, key)
         /\ \E i \in DOMAIN docs :
                Has(docs[i].data, key) /\ Get(docs[i].data, key) = Get(record, key))
        => insert_many(docs, indexes, serials, <<record>>).err # "none"

C5_FailedCreateStillGuards ==
    [][\A keys \in IndexKeys :
           (/\ NormalKeys(keys) = <<KA>>
            /\ CreateIndexCall(keys, TRUE)
            /\ \A i \in DOMAIN _documents : Has(_documents[i].data, KA)
            /\ TwoEqualOn(_documents, KA))
           => /\ last'.err = "DuplicateKeyError"
              /\ NoCollidingInsert(_documents', _indexes', appended', KA)]_vars

(***************************************************************************)
(* C6.  When the record at position j of the batch given to insert_many is *)
(* the first to violate a tracked unique index, the call fails with        *)
(* duplicate-key, and afterwards the documents are the previous documents  *)
(* followed by the records before j in order, whose value-tuples, and no   *)
(* others, have been added to every tracked index.  Stated of the call     *)
(* made in any reachable state; positions count from 1 here, and the       *)
(* records carry every indexed field.                                      *)
(***************************************************************************)
\* record as it is stored after the documents with the flat maps datas
Completed(record, datas) ==
    IF Has(record, ID) THEN record
    ELSE Append(record,
                <<ID, IntV(IF datas = <<>> THEN 1
                           ELSE 1 + Max({Get(datas[i], ID)[2] : i \in DOMAIN datas}))>>)

\* datas followed by the records, each completed with its _id
RECURSIVE StoredData(_, _)
StoredData(datas, records) ==
    IF records = <<>> THEN datas
    ELSE StoredData(Append(datas, Completed(records[1], datas)), Tail(records))

\* the tuples on index of the flat maps at the positions n + 1 .. m
TuplesIn(datas, n, m, index) ==
    {TupleOf(datas[k], index) : k \in (n + 1)..m}

\* stored: the n flat maps of the collection followed by the completed records
CarriesAt(stored, n, indexes, j) ==
    \A i \in DOMAIN indexes : HasAll(stored[n + j], indexes[i][1])

ViolatesAt(stored, n, indexes, j) ==
    \E i \in DOMAIN indexes :
        TupleOf(stored[n + j], indexes[i][1])
            \in indexes[i][2] \cup TuplesIn(stored, n, n + j - 1, indexes[i][1])

FirstViolation(stored, n, indexes, j) ==
    /\ \A k \in 1..j : CarriesAt(stored, n, indexes, k)
    /\ \A k \in 1..(j - 1) : ~ViolatesAt(stored, n, indexes, k)
    /\ ViolatesAt(stored, n, indexes, j)

PartialInsert(docs, indexes, stored, j, docs2, indexes2) ==
    LET n == Len(docs)
    IN /\ Len(docs2) = n + j - 1
       /\ SubSeq(docs2, 1, n) = docs
       /\ \A k \in 1..(j - 1) : ItemSet(docs2[n + k].data) = ItemSet(stored[n + k])
       /\ KeyList(indexes2) = KeyList(indexes)
       /\ \A i \in DOMAIN indexes :
              indexes2[i][2]
                  = indexes[i][2] \cup TuplesIn(stored, n, n + j - 1, indexes[i][1])

FailsAtFirstViolation(docs, indexes, serials, documents, stored) ==
    \A j \in DOMAIN documents :
        FirstViolation(stored, Len(docs), indexes, j)
        => LET r == insert_many(docs, indexes, serials, documents)
           IN /\ r.err = "DuplicateKeyError"
              /\ PartialInsert(docs, indexes, stored, j, r.docs, r.indexes)

C6_FailingBatchKeepsPrefix ==
    \A documents \in Batches :
        FailsAtFirstViolation(_documents, _indexes, appended, documents,
                              StoredData(Data(_documents), documents))

\* a batch has failed at its second record after its first was appended
C6_Witness ==
    /\ last.op = "insert_many"
    /\ last.err = "DuplicateKeyError"
    /\ Len(_documents) = last.before + 1
    /\ Has(_indexes, <<KA>>)

(***************************************************************************)
(* C7.  delete_many(query) removes exactly the documents that match query, *)
(* returns their number and leaves every index value-set as it was; so     *)
(* an insert_many, made next, of a record whose value-tuple on a tracked   *)
(* index is in the value-set only because of deleted documents is          *)
(* rejected with duplicate-key.  The record carries every indexed field.   *)
(***************************************************************************)
\* a tuple of the value-set of index that no document of docs has
Stale(docs, index, values) ==
    {t \in values : \A i \in DOMAIN docs :
                        ~(HasAll(docs[i].data, index)
                          /\ TupleOf(docs[i].data, index) = t)}

RejectsStale(before, docs, indexes, serials) ==
    \A record \in InsertRecords : \A i \in DOMAIN indexes :
        (/\ HasAll(record, indexes[i][1])
         /\ CarriesIndexed(record, indexes)
         /\ TupleOf(record, indexes[i][1])
                \in Stale(docs, indexes[i][1], indexes[i][2])
         /\ \E k \in DOMAIN before :
                /\ HasAll(before[k].data, indexes[i][1])
                /\ TupleOf(before[k].data, indexes[i][1])
                       = TupleOf(record, indexes[i][1]))
        => LET r == insert_many(docs, indexes, serials, <<record>>)
           IN r.err = "DuplicateKeyError" /\ r.docs = docs

C7_DeleteKeepsIndexValues ==
    [][\A query \in Queries :
           (last'.op = "delete_many" /\ DeleteManyCall(query)
                /\ last'.err = "none")
           => /\ _documents'
                     = SelectSeq(_documents,
                                 LAMBDA d : ~match(d.data, query).val)
              /\ last'.val = Cardinality(Matching(_documents, query))
              /\ _indexes' = _indexes
              /\ RejectsStale(_documents, _documents', _indexes', appended')]_vars

\* documents have been deleted and the index on a holds a value none has
C7_Witness ==
    /\ last.op = "delete_many"
    /\ last.val >= 1
    /\ Has(_indexes, <<KA>>)
    /\ \E v \in Vals :
           /\ <<IntV(v)>> \in Stale(_documents, <<KA>>, Get(_indexes, <<KA>>))
           /\ insert_many(_documents, _indexes, appended,
                          <<<<<<KA, IntV(v)>>>>>>).err = "DuplicateKeyError"

InInsertionOrder(docs) ==
    \A i \in DOMAIN docs : \A j \in DOMAIN docs :
        i < j => docs[i].serial < docs[j].serial

MatchingInOrder(docs, query) ==
    SelectSeq(docs, LAMBDA d : match(d.data, query).val)

FoundInOrder(docs, query, selection, found) ==
    LET matching == MatchingInOrder(docs, query)
    IN found.err = "none"
       => /\ Len(found.val) = Len(matching)
          /\ \A k \in DOMAIN matching :
                 ItemSet(found.val[k])
                     = ItemSet(select(matching[k].data, selection).val)

C9_FindInInsertionOrder ==
    /\ InInsertionOrder(_documents)
    /\ \A query \in Queries : \A selection \in Selections :
           FoundInOrder(_documents, query, selection,
                        find(_documents, query, selection))

\* find has returned two documents that differ, after a deletion and an update
C9_Witness ==
    /\ last.op = "find"
    /\ last.err = "none"
    /\ Len(last.val) >= 2
    /\ last.val[1] # last.val[2]
    /\ Len(_documents) < appended
    /\ \E i \in DOMAIN _documents : _documents[i].serial > i

(***************************************************************************)
(* C10.  When query matches a document, read_and_write(query, data,        *)
(* selection) returns the first matching document after data has been      *)
(* merged into it, projected by selection: the fields select(selection)    *)
(* returns for that document.                                              *)
(***************************************************************************)
C10_ReturnsProjection ==
    [][\A query \in RWQueries : \A data \in RWData : \A selection \in Selections :
           (/\ last'.op = "read_and_write"
            /\ ReadAndWriteCall(query, data, selection)
            /\ MatchingInOrder(_documents, query) # <<>>)
           => /\ last'.err = "none"
              /\ IsDict(last'.val)
              /\ ItemSet(last'.val[2])
                     = ItemSet(select(Update(MatchingInOrder(_documents, query)[1].data,
                                             _flatten(data)),
                                      selection).val)]_vars

(***************************************************************************)
(* C11.  A read_and_write whose query matches a document modifies exactly  *)
(* one document, the first in insertion order that matches query, and      *)
(* leaves every other document of the collection as it was.  Stated of     *)
(* the call made in any reachable state.                                   *)
(***************************************************************************)
First(S) == CHOOSE x \in S : \A y \in S : x =< y

OnlyFirstMatchWritten(docs, query, data, docs2) ==
    LET first == First(Matching(docs, query))
    IN /\ Len(docs2) = Len(docs)
       /\ \A i \in DOMAIN docs : i # first => docs2[i] = docs[i]
       /\ docs2[first].serial = docs[first].serial
       /\ ItemSet(docs2[first].data)
              = ItemSet(Update(docs[first].data, _flatten(data)))

C11_WritesFirstMatchOnly ==
    \A query \in RWQueries : \A data \in RWData :
        Matching(_documents, query) # {}
        => OnlyFirstMatchWritten(_documents, query, data,
               read_and_write(_documents, _indexes, query, data, NoneV).docs)

(***************************************************************************)
(* C12.  read_and_write with a query that matches no document returns      *)
(* None, raises nothing and changes neither the documents nor the index    *)
(* value-sets.  Stated of the call made in any reachable state.            *)
(***************************************************************************)
C12_NothingFoundNothingDone ==
    \A query \in RWQueries : \A data \in RWData : \A selection \in Selections :
        Matching(_documents, query) = {}
        => LET r == read_and_write(_documents, _indexes, query, data, selection)
           IN /\ r.err = "none"
              /\ r.val = NoneV
              /\ r.docs = _documents
              /\ r.indexes = _indexes

\* the call has returned None on a collection that holds documents
C12_Witness ==
    /\ last.op = "read_and_write"
    /\ last.err = "none"
    /\ last.val[1] = "none"
    /\ Len(_documents) >= 2

(***************************************************************************)
(* C13.  An update, a raw record or {"$set": record}, applied by           *)
(* update_many merges into each matched document: every flattened key of   *)
(* the update holds the update's value afterwards, every other key of the  *)
(* document keeps its value, no key is removed, and the documents that do  *)
(* not match the query are unchanged.  Stated of the call made in any      *)
(* reachable state.                                                        *)
(***************************************************************************)
\* the <<dotted path, leaf>> pairs of a nested record; a leaf is a value
\* that is not a dict, or the empty dict
RECURSIVE Leaves(_)
Leaves(items) ==
    UNION {IF IsDict(items[i][2]) /\ items[i][2][2] # <<>>
           THEN {<<items[i][1] \o <<".">> \o p[1], p[2]>> :
                     p \in Leaves(items[i][2][2])}
           ELSE {<<items[i][1], items[i][2]>>} : i \in DOMAIN items}

RecordOf(upd) == IF Has(upd, SET) THEN Get(upd, SET)[2] ELSE upd

Merged(old, upd, new) ==
    LET leaves == Leaves(RecordOf(upd))
    IN /\ \A p \in leaves : Has(new, p[1]) /\ Get(new, p[1]) = p[2]
       /\ \A k \in Keys(old) :
              /\ Has(new, k)
              /\ (\A p \in leaves : p[1] # k) => Get(new, k) = Get(old, k)
       /\ Keys(new) = Keys(old) \cup {p[1] : p \in leaves}
       /\ Len(new) = Cardinality(Keys(new))

UpdateMerges(docs, query, upd, r) ==
    r.err = "none"
    => /\ Len(r.docs) = Len(docs)
       /\ \A i \in DOMAIN docs :
              IF match(docs[i].data, query).val
              THEN /\ r.docs[i].serial = docs[i].serial
                   /\ Merged(docs[i].data, upd, r.docs[i].data)
              ELSE r.docs[i] = docs[i]

C13_UpdateMerges ==
    \A query \in NestedQueries : \A upd \in NestedUpdates :
        UpdateMerges(_documents, query, upd,
                     update_many(_documents, _indexes, query, upd))

(***************************************************************************)
(* C14.  unflatten of a flat map in which one key is a strict dotted       *)
(* prefix of another key fails with an error; it never returns a record    *)
(* in which one of the two values has been overwritten.  Stated of the     *)
(* flat map of every document of every reachable state, and of the find    *)
(* that returns the document.                                              *)
(***************************************************************************)
StrictPrefix(key, other) == startswith(other, key \o <<".">>)

Overlapping(data) ==
    \E key \in Keys(data) : \E other \in Keys(data) : StrictPrefix(key, other)

C14_OverlapFailsLoudly ==
    \A i \in DOMAIN _documents :
        Overlapping(_documents[i].data)
        => /\ _unflatten(_documents[i].data).err # "none"
           /\ find(<<_documents[i]>>, NoneV, NoneV).err # "none"

(***************************************************************************)
(* C15.  For every nested record r of bounded depth, with leaves that are  *)
(* scalars or empty records and keys without ".",                          *)
(* flatten(unflatten(flatten(r))) is the same flat map as flatten(r), and  *)
(* flatten leaves r itself unchanged.  Two flat maps are the same when     *)
(* they have the same items, as == of two dicts.                           *)
(***************************************************************************)
C15_FlattenRoundTrip ==
    /\ last.op \in {"_flatten", "_unflatten", "_flatten again"}
           => last.val.dictionary = last.val.record
    /\ last.op = "_unflatten" => last.err = "none"
    /\ last.op = "_flatten again"
           => /\ ItemSet(last.val.again) = ItemSet(last.val.flat)
              /\ Len(last.val.again) = Cardinality(ItemSet(last.val.again))
              /\ Len(last.val.flat) = Cardinality(ItemSet(last.val.flat))

(***************************************************************************)
(* C16.  For every document and every inclusion selection (all values of   *)
(* the fields other than _id are 1), select returns without error exactly  *)
(* the stored fields whose path equals a selected path or is a strict      *)
(* dotted descendant of it (a.b.c is selected by a.b, a.bx is not, a field *)
(* named aa is not selected by a), plus _id unless _id is explicitly 0.    *)
(* Stated of select on every document of every reachable state.            *)
(***************************************************************************)
\* the paths a selection gives the value n
PathsAt(selection, n) == {p[1] : p \in {q \in Leaves(selection[2]) : q[2] = IntV(n)}}

SelectedBy(path, selected) == path = selected \/ StrictPrefix(selected, path)

ExpectedIncluded(data, selection) ==
    {p \in ItemSet(data) :
         IF p[1] = ID THEN ID \notin PathsAt(selection, 0)
         ELSE \E selected \in PathsAt(selection, 1) \ {ID} :
                  SelectedBy(p[1], selected)}

C16_InclusionSelects ==
    \A i \in DOMAIN _documents : \A selection \in InclusionSelections :
        LET r == select(_documents[i].data, selection)
        IN /\ r.err = "none"
           /\ Leaves(r.val) = ExpectedIncluded(_documents[i].data, selection)

(***************************************************************************)
(* C17.  For every document and every non-empty selection in which every   *)
(* field other than _id has the value 0, a selection that names only _id   *)
(* included, select returns every stored field not named in the            *)
(* selection, plus _id unless _id is explicitly 0; a selection that mixes  *)
(* 0 and 1 among the fields other than _id fails with the                  *)
(* invalid-selection error.  Stated of select on every document of every   *)
(* reachable state.                                                        *)
(***************************************************************************)
ExpectedKept(data, selection) ==
    {p \in ItemSet(data) :
         IF p[1] = ID THEN ID \notin PathsAt(selection, 0)
         ELSE p[1] \notin PathsAt(selection, 0) \cup PathsAt(selection, 1)}

C17_ExclusionSelects ==
    \A i \in DOMAIN _documents :
        /\ \A selection \in ExclusionSelections :
               LET r == select(_documents[i].data, selection)
               IN /\ r.err = "none"
                  /\ Leaves(r.val) = ExpectedKept(_documents[i].data, selection)
        /\ \A selection \in MixedSelections :
               select(_documents[i].data, selection).err = "ValueError"

(***************************************************************************)
(* C18.  A query with a key whose last dot-segment is a $-token other than *)
(* $in, $gte, $gt, $lte is rejected with the unsupported-operator error    *)
(* (ValueError) by match, and hence by find, count, update_many and        *)
(* delete_many, whatever the other keys of the query and whatever          *)
(* documents the collection holds; a key with an operator of the table on  *)
(* a field the document lacks yields no match and no error.  Stated of     *)
(* the calls made in any reachable state.                                  *)
(***************************************************************************)
Rejected(r) == r.err = "ValueError"

C18_UnsupportedOperatorRejected ==
    /\ \A query \in UnsupportedQueries :
           /\ \A i \in DOMAIN _documents : Rejected(match(_documents[i].data, query))
           /\ Rejected(find(_documents, query, NoneV))
           /\ Rejected(count(_documents, query))
           /\ Rejected(update_many(_documents, _indexes, query, <<<<KA, IntV(1)>>>>))
           /\ Rejected(delete_many(_documents, _indexes, query))
    /\ \A query \in MissingFieldQueries :
           /\ \A i \in DOMAIN _documents : match(_documents[i].data, query) = Ok(FALSE)
           /\ find(_documents, query, NoneV) = Ok(<<>>)

(***************************************************************************)
(* C19.  When the scan of create_index(K, unique=True) fails with          *)
(* duplicate-key at the document at position i, afterwards K is a tracked  *)
(* index whose value-set is exactly the set of the K-tuples of the         *)
(* documents before position i, the document sequence is unchanged, and    *)
(* any later create_index call for K, unique or not, is a no-op that       *)
(* raises no error and changes no state.  Positions count from 1 here.     *)
(***************************************************************************)
TuplesBefore(docs, i, index) == {TupleOf(docs[k].data, index) : k \in 1..(i - 1)}

\* the scan over docs meets its first repeated tuple on index at position i
FirstRepeatAt(docs, i, index) ==
    /\ \A k \in 1..i : HasAll(docs[k].data, index)
    /\ TupleOf(docs[i].data, index) \in TuplesBefore(docs, i, index)
    /\ \A k \in 1..(i - 1) :
           TupleOf(docs[k].data, index) \notin TuplesBefore(docs, k, index)

LaterCreateIsNoOp(docs, indexes, index) ==
    \A keys \in IndexKeys : \A unique \in BOOLEAN :
        NormalKeys(keys) = index
        => create_index(indexes, docs, keys, unique)
               = [indexes |-> indexes, err |-> "none"]

C19_FailedScanKeepsPrefix ==
    [][\A keys \in IndexKeys :
           (/\ last'.op = "create_index"
            /\ CreateIndexCall(keys, TRUE)
            /\ last'.err = "DuplicateKeyError")
           => /\ Has(_indexes', NormalKeys(keys))
              /\ \E i \in DOMAIN _documents :
                     /\ FirstRepeatAt(_documents, i, NormalKeys(keys))
                     /\ Get(_indexes', NormalKeys(keys))
                            = TuplesBefore(_documents, i, NormalKeys(keys))
              /\ \A k \in DOMAIN _indexes : _indexes'[k] = _indexes[k]
              /\ _documents' = _documents
              /\ LaterCreateIsNoOp(_documents', _indexes', NormalKeys(keys))]_vars

\* the scan has just failed at the third document, after two documents with
\* different values of a
C19_Witness ==
    /\ last.op = "create_index"
    /\ last.err = "DuplicateKeyError"
    /\ Len(_documents) >= 3
    /\ Has(_indexes, <<KA>>)
    /\ Cardinality(Get(_indexes, <<KA>>)) = 2

(***************************************************************************)
(* C20.  In every state reached by insert_many, delete_many and            *)
(* create_index calls that returned normally or failed in insert_many (no  *)
(* update_many, no drop, no failed create_index), for every tracked        *)
(* unique index K the value-set of K contains the K-tuple of every         *)
(* document of the collection, and no two documents of the collection      *)
(* share a K-tuple.                                                        *)
(***************************************************************************)
C20_IndexesSound ==
    \A k \in DOMAIN _indexes :
        /\ \A i \in DOMAIN _documents :
               /\ HasAll(_documents[i].data, _indexes[k][1])
               /\ TupleOf(_documents[i].data, _indexes[k][1]) \in _indexes[k][2]
        /\ \A i \in DOMAIN _documents : \A j \in DOMAIN _documents :
               i # j => TupleOf(_documents[i].data, _indexes[k][1])
                            # TupleOf(_documents[j].data, _indexes[k][1])

\* an insert_many has failed on a collection that holds a document and whose
\* index on a still holds the value of a deleted document
C20_Witness ==
    /\ last.op = "insert_many"
    /\ last.err = "DuplicateKeyError"
    /\ Len(_documents) >= 1
    /\ Has(_indexes, <<KA>>)
    /\ Stale(_documents, <<KA>>, Get(_indexes, <<KA>>)) # {}

(***************************************************************************)
(* C21.  insert_many of a record that lacks a field of some tracked unique *)
(* index is rejected with an error that is not duplicate-key, before the   *)
(* record is appended or registered, so the document sequence and all      *)
(* index value-sets are unchanged; hence every stored document has a       *)
(* value for every field of every unique index that was tracked when it    *)
(* was inserted.  Stated of the calls made in any reachable state; the     *)
(* record is taken with the _id that insert_many gives it.                 *)
(***************************************************************************)
DataOf(docs) == [i \in DOMAIN docs |-> docs[i].data]

LacksIndexed(stored, indexes) ==
    \E k \in DOMAIN indexes : ~HasAll(stored, indexes[k][1])

\* insert_many of the one record leaves the collection as it is
RejectedUnchanged(docs, indexes, r) ==
    /\ r.err # "none"
    /\ r.docs = docs
    /\ r.indexes = indexes

\* the documents a call has appended carry every field of every index
\* that was tracked when the call was made
AppendedCarryIndexed(docs, indexes, r) ==
    \A i \in (Len(docs) + 1)..Len(r.docs) :
        \A k \in DOMAIN indexes : HasAll(r.docs[i].data, indexes[k][1])

\* of every single record in every state, and of the longer batches in the
\* states in which InsertMany can hand them over
InsertedCarryIndexed ==
    \A documents \in Batches :
        (Len(documents) = 1 \/ appended + Len(documents) =< MaxInserts)
        => AppendedCarryIndexed(_documents, _indexes,
               insert_many(_documents, _indexes, appended, documents))

C21_MissingFieldNotDuplicate ==
    /\ \A record \in InsertRecords :
           LacksIndexed(Completed(record, DataOf(_documents)), _indexes)
           => LET r == insert_many(_documents, _indexes, appended, <<record>>)
              IN /\ RejectedUnchanged(_documents, _indexes, r)
                 /\ r.err # "DuplicateKeyError"
    /\ InsertedCarryIndexed

\* Amended: the record is rejected and nothing changes, but the error is the
\* missing-key error (KeyError) only when no index tracked before the first
\* index of which the record lacks a field holds the record's tuple; when
\* one does, _validate_index meets it first and the error is duplicate-key.
FirstLacked(stored, indexes) ==
    First({k \in DOMAIN indexes : ~HasAll(stored, indexes[k][1])})

HeldBefore(stored, indexes) ==
    \E j \in 1..(FirstLacked(stored, indexes) - 1) :
        TupleOf(stored, indexes[j][1]) \in indexes[j][2]

C21_MissingFieldRejected ==
    /\ \A record \in InsertRecords :
           LET stored == Completed(record, DataOf(_documents))
           IN LacksIndexed(stored, _indexes)
              => LET r == insert_many(_documents, _indexes, appended, <<record>>)
                 IN /\ RejectedUnchanged(_documents, _indexes, r)
                    /\ r.err = IF HeldBefore(stored, _indexes)
                               THEN "DuplicateKeyError" ELSE "KeyError"
    /\ InsertedCarryIndexed

\* a record without the field a has just been rejected with the missing-key
\* error by a collection that tracks the index on a and holds two documents
C21_Witness ==
    /\ last.op = "insert_many"
    /\ last.err = "KeyError"
    /\ Has(_indexes, <<KA>>)
    /\ Len(_documents) >= 2
    /\ Len(_documents) = last.before

====
